---------------------------- MODULE Spec2Model ----------------------------
(***************************************************************************)
(* Model of app/static/js/script.js: the GLB/glTF viewer (scene, loader    *)
(* callbacks, animate) and the toolbar / AI-shutoff interlock (checkbox,   *)
(* status dot, status text, mode indicator).                               *)
(*                                                                         *)
(* The browser runs one handler to completion before the next, so every    *)
(* handler is one action.  Calls that leave the page's state (alert,       *)
(* console.*, renderer.render) are recorded in `out`, the sequence of      *)
(* external calls made by the handler that ran last; `lastEvent` names     *)
(* that handler and its input.                                             *)
(***************************************************************************)
EXTENDS Integers, Sequences, FiniteSets, TLC

VARIABLES
    children,        \* scene.children: sequence of object ids
    loads,           \* loads[u]: file name and loader state of object URL u
    rafScheduled,    \* number of animate callbacks requestAnimationFrame holds
    checked,         \* aiToggle.checked
    statusDot,       \* statusDot.className
    statusText,      \* statusText.textContent
    modeIndicator,   \* modeIndicator.textContent
    lastEvent,       \* the handler that ran last, with its input
    out,             \* external calls made by the handler that ran last
    sceneAtRequest   \* history: sceneAtRequest[u] = scene.children when u was selected

vars == <<children, loads, rafScheduled, checked, statusDot, statusText,
          modeIndicator, lastEvent, out, sceneAtRequest>>

viewerVars == <<children, loads, rafScheduled, sceneAtRequest>>
interlockVars == <<checked, statusDot, statusText, modeIndicator>>

---------------------------------------------------------------------------
(* Bounds and inputs *)

\* number of files the user selects in one run
MaxFiles == 2

\* file names offered to the file selector
FileNames == {"model.glb", "scene.gltf", "model.txt", "MODEL.GLB"}

\* titles of the .tool-btn buttons of the page: the six of the switch and one more
ButtonTitles == {"Settings", "AI Tools", "Graphs / Analysis", "Captured Images",
                 "Human TEM Control", "Automated TEM", "Help"}

---------------------------------------------------------------------------
(* Page markup the script starts from *)

InitialChecked == FALSE
InitialStatusDot == "status-dot idle"
InitialStatusText == "AI: IDLE"
InitialModeIndicator == "MODE: IDLE"

---------------------------------------------------------------------------
(* Viewer *)

\* the ambient light object; a decoded gltf.scene of object URL u is object u
light == 0
gltfScene(u) == u

\* String.prototype.endsWith
endsWith(s, suffix) ==
    /\ Len(s) >= Len(suffix)
    /\ SubSeq(s, Len(s) - Len(suffix) + 1, Len(s)) = suffix

isModelFile_Any(name) == TRUE

\* the condition of the file-selector handler's if
isModelFile(name) == endsWith(name, ".glb") \/ endsWith(name, ".gltf")

\* Object3D.clear(): removes every child
sceneClear(ch) == << >>

\* Object3D.add(obj): detaches obj from its parent, then pushes it
sceneAdd(ch, obj) == Append(SelectSeq(ch, LAMBDA c : c # obj), obj)

\* one call of an external sink
Call(sink, msg) == [sink |-> sink, msg |-> msg]
Render(ch) == [sink |-> "renderer.render", msg |-> ch]

Event(type, arg, url) == [type |-> type, arg |-> arg, url |-> url]

\* file-selector change handler: createObjectURL, then load if the name matches
FileSelected(name) ==
    /\ Len(loads) < MaxFiles
    /\ loads' = Append(loads, [name  |-> name,
                               state |-> IF isModelFile(name) THEN "pending" ELSE "none"])
    /\ sceneAtRequest' = Append(sceneAtRequest, children)
    /\ lastEvent' = Event("select", name, Len(loads) + 1)
    /\ out' = << >>
    /\ UNCHANGED <<children, rafScheduled, interlockVars>>

\* variants of the success callback: without scene.clear(), and one that
\* keeps the asset of a later selection
onLoadScene_NoClear(ch, u) == sceneAdd(sceneAdd(ch, light), u)
onLoadScene_LatestSelected(ch, u) ==
    IF \E i \in 1..Len(ch) : ch[i] > u
      THEN ch
      ELSE sceneAdd(sceneAdd(<< >>, light), u)

\* the scene after the success callback of object URL u
onLoadScene(ch, u) == sceneAdd(sceneAdd(sceneClear(ch), light), gltfScene(u))

\* animate(), called from the success callback: schedules itself and renders
animateScheduled(n) == n + 1

LoadSuccess_SetsReady(u) ==
    /\ u \in 1..Len(loads)
    /\ loads[u].state = "pending"
    /\ loads' = [loads EXCEPT ![u].state = "loaded"]
    /\ children' = onLoadScene(children, u)
    /\ rafScheduled' = animateScheduled(rafScheduled)
    /\ lastEvent' = Event("loaded", loads[u].name, u)
    /\ out' = <<Render(children')>>
    /\ statusDot' = "status-dot idle"
    /\ statusText' = "AI: READY"
    /\ UNCHANGED <<sceneAtRequest, checked, modeIndicator>>

\* loader.load success callback
LoadSuccess(u) ==
    /\ u \in 1..Len(loads)
    /\ loads[u].state = "pending"
    /\ loads' = [loads EXCEPT ![u].state = "loaded"]
    /\ children' = onLoadScene(children, u)
    /\ rafScheduled' = animateScheduled(rafScheduled)
    /\ lastEvent' = Event("loaded", loads[u].name, u)
    /\ out' = <<Render(children')>>
    /\ UNCHANGED <<sceneAtRequest, interlockVars>>

onErrorScene_Clears(ch) == <<0>>

\* the scene after the error callback
onErrorScene(ch) == ch

\* loader.load error callback
LoadError(u) ==
    /\ u \in 1..Len(loads)
    /\ loads[u].state = "pending"
    /\ loads' = [loads EXCEPT ![u].state = "failed"]
    /\ children' = onErrorScene(children)
    /\ lastEvent' = Event("failed", loads[u].name, u)
    /\ out' = <<Call("console.error", "Load error:")>>
    /\ UNCHANGED <<rafScheduled, sceneAtRequest, interlockVars>>

Frame_NoReschedule ==
    /\ rafScheduled > 0
    /\ rafScheduled' = 0
    /\ lastEvent' = Event("frame", "", 0)
    /\ out' = [i \in 1..rafScheduled |-> Render(children)]
    /\ UNCHANGED <<children, loads, sceneAtRequest, interlockVars>>

\* one animation frame: every scheduled animate runs, reschedules itself and renders
Frame ==
    /\ rafScheduled > 0
    /\ rafScheduled' = rafScheduled
    /\ lastEvent' = Event("frame", "", 0)
    /\ out' = [i \in 1..rafScheduled |-> Render(children)]
    /\ UNCHANGED <<children, loads, sceneAtRequest, interlockVars>>

---------------------------------------------------------------------------
(* Interlock *)

\* aiToggle change handler: the click flips the checkbox, then the handler runs
changeStatusDot(c) == IF c THEN "status-dot error" ELSE "status-dot idle"
changeStatusText_Disabled(c) == "AI: DISABLED"
changeStatusText(c) == IF c THEN "AI: DISABLED" ELSE "AI: IDLE"
changeOut(c) ==
    IF c THEN <<Call("console.warn", "AI shutoff engaged")>> ELSE << >>

AiToggleChange_ResetsMode ==
    /\ checked' = ~checked
    /\ statusDot' = changeStatusDot(checked')
    /\ statusText' = changeStatusText(checked')
    /\ out' = changeOut(checked')
    /\ lastEvent' = Event("change", "", 0)
    /\ modeIndicator' = "MODE: IDLE"
    /\ UNCHANGED viewerVars

AiToggleChange ==
    /\ checked' = ~checked
    /\ statusDot' = changeStatusDot(checked')
    /\ statusText' = changeStatusText(checked')
    /\ out' = changeOut(checked')
    /\ lastEvent' = Event("change", "", 0)
    /\ UNCHANGED <<modeIndicator, viewerVars>>

\* setAIRunning(): writes the status only when the checkbox is not checked
runningAllowed_Always(c) == TRUE
runningAllowed(c) == ~c

setAIRunning ==
    /\ IF runningAllowed(checked)
         THEN /\ statusDot' = "status-dot running"
              /\ statusText' = "AI: RUNNING"
         ELSE UNCHANGED <<statusDot, statusText>>
    /\ out' = << >>
    /\ lastEvent' = Event("setAIRunning", "", 0)
    /\ UNCHANGED <<checked, modeIndicator, viewerVars>>

setStatus_NoPrefix(state, text) ==
    /\ statusDot' = "status-dot " \o state
    /\ statusText' = text

\* setStatus(state, text)
setStatus(state, text) ==
    /\ statusDot' = "status-dot " \o state
    /\ statusText' = "AI: " \o text

\* setMode(mode): the text it writes and the line it logs
setMode(mode) == modeIndicator' = "MODE: " \o mode
setModeLog(mode) == Call("console.log", "Switched to " \o mode)

caseSettings ==
    /\ setMode("SETTINGS")
    /\ out' = <<setModeLog("SETTINGS"), Call("alert", "Settings panel coming soon")>>
    /\ UNCHANGED <<checked, statusDot, statusText>>

caseAITools_NoGuard ==
    /\ setMode("AI TOOL SELECTION")
    /\ setStatus("idle", "READY")
    /\ out' = <<setModeLog("AI TOOL SELECTION")>>
    /\ UNCHANGED checked

caseAITools ==
    IF checked
      THEN /\ out' = <<Call("alert", "AI is disabled by shutoff switch.")>>
           /\ UNCHANGED <<checked, statusDot, statusText, modeIndicator>>
      ELSE /\ setMode("AI TOOL SELECTION")
           /\ setStatus("idle", "READY")
           /\ out' = <<setModeLog("AI TOOL SELECTION")>>
           /\ UNCHANGED checked

caseGraphsAnalysis_Gated ==
    IF checked
      THEN /\ out' = <<Call("alert", "AI is disabled by shutoff switch.")>>
           /\ UNCHANGED <<checked, statusDot, statusText, modeIndicator>>
      ELSE /\ setMode("ANALYSIS")
           /\ setStatus("idle", "IDLE")
           /\ out' = <<setModeLog("ANALYSIS")>>
           /\ UNCHANGED checked

caseGraphsAnalysis ==
    /\ setMode("ANALYSIS")
    /\ setStatus("idle", "IDLE")
    /\ out' = <<setModeLog("ANALYSIS")>>
    /\ UNCHANGED checked

caseCapturedImages_Unchecks ==
    /\ checked' = FALSE
    /\ setMode("IMAGE REVIEW")
    /\ out' = <<setModeLog("IMAGE REVIEW")>>
    /\ UNCHANGED <<statusDot, statusText>>

caseCapturedImages ==
    /\ setMode("IMAGE REVIEW")
    /\ out' = <<setModeLog("IMAGE REVIEW")>>
    /\ UNCHANGED <<checked, statusDot, statusText>>

caseHumanTEMControl_KeepsCheckbox ==
    /\ setMode("HUMAN CONTROL")
    /\ setStatus("error", "DISABLED")
    /\ out' = <<setModeLog("HUMAN CONTROL")>>
    /\ UNCHANGED checked

caseHumanTEMControl ==
    /\ checked' = TRUE
    /\ setMode("HUMAN CONTROL")
    /\ setStatus("error", "DISABLED")
    /\ out' = <<setModeLog("HUMAN CONTROL")>>

caseAutomatedTEM_NoGuard ==
    /\ setMode("AUTOMATED TEM")
    /\ setStatus("running", "RUNNING")
    /\ out' = <<setModeLog("AUTOMATED TEM")>>
    /\ UNCHANGED checked

caseAutomatedTEM ==
    IF checked
      THEN /\ out' = <<Call("alert", "Disable AI shutoff to enable automation.")>>
           /\ UNCHANGED <<checked, statusDot, statusText, modeIndicator>>
      ELSE /\ setMode("AUTOMATED TEM")
           /\ setStatus("running", "RUNNING")
           /\ out' = <<setModeLog("AUTOMATED TEM")>>
           /\ UNCHANGED checked

caseDefault_Alerts(action) ==
    /\ out' = <<Call("alert", "Unknown toolbar action:")>>
    /\ UNCHANGED <<checked, statusDot, statusText, modeIndicator>>

caseDefault(action) ==
    /\ out' = <<Call("console.warn", "Unknown toolbar action:")>>
    /\ UNCHANGED <<checked, statusDot, statusText, modeIndicator>>

\* click handler of a .tool-btn whose title attribute is `action`
ToolButtonClick(action) ==
    /\ CASE action = "Settings"          -> caseSettings
         [] action = "AI Tools"          -> caseAITools
         [] action = "Graphs / Analysis" -> caseGraphsAnalysis
         [] action = "Captured Images"   -> caseCapturedImages
         [] action = "Human TEM Control" -> caseHumanTEMControl
         [] action = "Automated TEM"     -> caseAutomatedTEM
         [] OTHER                        -> caseDefault(action)
    /\ lastEvent' = Event("click", action, 0)
    /\ UNCHANGED viewerVars

---------------------------------------------------------------------------
(* Specification *)

Init ==
    /\ children = sceneAdd(<< >>, light)
    /\ loads = << >>
    /\ rafScheduled = 0
    /\ checked = InitialChecked
    /\ statusDot = InitialStatusDot
    /\ statusText = InitialStatusText
    /\ modeIndicator = InitialModeIndicator
    /\ lastEvent = Event("init", "", 0)
    /\ out = << >>
    /\ sceneAtRequest = << >>

Next ==
    \/ \E name \in FileNames : FileSelected(name)
    \/ \E u \in 1..MaxFiles : LoadSuccess(u)
    \/ \E u \in 1..MaxFiles : LoadError(u)
    \/ Frame
    \/ AiToggleChange
    \/ setAIRunning
    \/ \E action \in ButtonTitles : ToolButtonClick(action)

Spec == Init /\ [][Next]_vars

\* the browser dispatches a frame whenever animation callbacks are scheduled
FairSpec == Spec /\ WF_vars(Frame)

---------------------------------------------------------------------------
(* Vocabulary of the properties *)

\* the interlock state as the specification names it
disabled == checked
mode == SubSeq(modeIndicator, Len("MODE: ") + 1, Len(modeIndicator))
statusState == SubSeq(statusDot, Len("status-dot ") + 1, Len(statusDot))

\* number of calls of `sink` the last handler made
Calls(o, sink) == Cardinality({i \in 1..Len(o) : o[i].sink = sink})

RecognizedTitles == {"Settings", "AI Tools", "Graphs / Analysis", "Captured Images",
                     "Human TEM Control", "Automated TEM"}

\* the last handler was a click on the button titled t
Clicked(t) == lastEvent.type = "click" /\ lastEvent.arg = t

\* asset subtrees in the scene, and the one shown (0 when none)
assets(ch) == {i \in 1..Len(ch) : ch[i] # light}
lights(ch) == {i \in 1..Len(ch) : ch[i] = light}
shown(ch) == IF assets(ch) = {} THEN 0 ELSE ch[CHOOSE i \in assets(ch) : TRUE]

\* object URLs whose loader has not called back yet
pending(l) == {u \in 1..Len(l) : l[u].state = "pending"}

\* the last handler updated the mode (setMode logged its line)
Accepted(o) == Calls(o, "console.log") = 1

\* names of the file selector that are not model files
OtherNames == {"model.txt", "MODEL.GLB"}

---------------------------------------------------------------------------
(* C1: with the shutoff checked, a click on "AI Tools" or "Automated TEM"   *)
(* leaves checkbox, mode, status class and status text as they were, shows  *)
(* exactly one alert and logs no "Switched to" line.                        *)
C1_RejectedWhenDisabled ==
    [][ (checked /\ (Clicked("AI Tools")' \/ Clicked("Automated TEM")'))
          => /\ UNCHANGED <<checked, modeIndicator, statusDot, statusText>>
             /\ Calls(out', "alert") = 1
             /\ Calls(out', "console.log") = 0 ]_vars

C1_Witness ==
    /\ Clicked("Automated TEM")
    /\ checked
    /\ mode = "ANALYSIS"
    /\ Calls(out, "alert") = 1

(* C2: the status dot never has the class "running" while the shutoff      *)
(* checkbox is checked.                                                     *)
C2_NeverRunningWhileDisabled ==
    ~(disabled /\ statusState = "running")

C2_Witness ==
    /\ lastEvent.type = "setAIRunning"
    /\ disabled
    /\ mode = "AUTOMATED TEM"
    /\ statusState = "error"

(* C3: after a click on "Human TEM Control" the checkbox is checked, the    *)
(* mode is HUMAN CONTROL and the status is (error, "AI: DISABLED"); the     *)
(* click is accepted, without an alert.                                     *)
C3_HumanControlForcesShutoff ==
    Clicked("Human TEM Control")
        => /\ disabled
           /\ mode = "HUMAN CONTROL"
           /\ statusState = "error"
           /\ statusText = "AI: DISABLED"
           /\ Accepted(out)
           /\ Calls(out, "alert") = 0

C3_Witness ==
    /\ Clicked("Human TEM Control")
    /\ disabled
    /\ modeIndicator = "MODE: HUMAN CONTROL"
    /\ statusDot = "status-dot error"
    /\ pending(loads) # {}

(* C4: after a change event of the checkbox the status is (error,           *)
(* "AI: DISABLED") when the checkbox is checked and (idle, "AI: IDLE")      *)
(* when it is not, whatever the mode and the status were.                   *)
C4_ToggleSetsStatus ==
    lastEvent.type = "change"
        => IF checked
             THEN statusState = "error" /\ statusText = "AI: DISABLED"
             ELSE statusState = "idle" /\ statusText = "AI: IDLE"

C4_Witness ==
    /\ lastEvent.type = "change"
    /\ ~checked
    /\ mode = "HUMAN CONTROL"
    /\ statusText = "AI: IDLE"

(* C5: with the shutoff checked, Settings, Graphs / Analysis, Captured      *)
(* Images and Human TEM Control are accepted and have their table effect,   *)
(* and the checkbox stays checked.                                          *)
C5_UngatedActionsWhenDisabled ==
    [][ checked =>
          /\ Clicked("Settings")'
               => /\ mode' = "SETTINGS"
                  /\ UNCHANGED <<statusDot, statusText>>
                  /\ Accepted(out') /\ checked'
          /\ Clicked("Graphs / Analysis")'
               => /\ mode' = "ANALYSIS"
                  /\ statusState' = "idle" /\ statusText' = "AI: IDLE"
                  /\ Accepted(out') /\ checked'
          /\ Clicked("Captured Images")'
               => /\ mode' = "IMAGE REVIEW"
                  /\ UNCHANGED <<statusDot, statusText>>
                  /\ Accepted(out') /\ checked'
          /\ Clicked("Human TEM Control")'
               => /\ mode' = "HUMAN CONTROL"
                  /\ statusState' = "error" /\ statusText' = "AI: DISABLED"
                  /\ Accepted(out') /\ checked' ]_vars

C5_Witness ==
    /\ Clicked("Graphs / Analysis")
    /\ checked
    /\ mode = "ANALYSIS"
    /\ statusText = "AI: IDLE"

(* C6: a click on a button whose title is none of the six of the switch     *)
(* changes nothing of the interlock, warns once on the console and shows    *)
(* no alert.                                                                *)
C6_UnknownActionOnlyWarns ==
    [][ (lastEvent'.type = "click" /\ lastEvent'.arg \notin RecognizedTitles)
          => /\ UNCHANGED <<checked, modeIndicator, statusDot, statusText>>
             /\ Calls(out', "console.warn") = 1
             /\ Calls(out', "alert") = 0
             /\ Len(out') = 1 ]_vars

C6_Witness ==
    /\ Clicked("Help")
    /\ Calls(out, "console.warn") = 1
    /\ mode = "AUTOMATED TEM"

(* C7: the scene always holds exactly one light and at most one asset;      *)
(* right after a success callback it holds the light and the asset just     *)
(* decoded, nothing else.                                                   *)
C7_OneLightOneAsset ==
    /\ Cardinality(lights(children)) = 1
    /\ Cardinality(assets(children)) <= 1
    /\ lastEvent.type = "loaded"
         => children = <<light, gltfScene(lastEvent.url)>>

C7_Witness ==
    /\ lastEvent.type = "loaded"
    /\ lastEvent.url = 2
    /\ loads[1].state = "loaded"
    /\ children = <<light, 2>>

(* C8: selecting a file whose name does not end in .glb or .gltf starts no  *)
(* load, leaves the scene and the pending loads as they were and schedules  *)
(* no animate.                                                              *)
C8_OtherFilesIgnored ==
    [][ (lastEvent'.type = "select" /\ lastEvent'.arg \in OtherNames)
          => /\ children' = children
             /\ pending(loads') = pending(loads)
             /\ loads'[lastEvent'.url].state = "none"
             /\ rafScheduled' = rafScheduled
             /\ out' = << >> ]_vars

C8_Witness ==
    /\ lastEvent.type = "select"
    /\ lastEvent.arg = "MODEL.GLB"
    /\ loads[lastEvent.url].state = "none"
    /\ shown(children) = 1

(* C9 as stated: after the error callback of a load the scene is what it    *)
(* was when that load was requested.                                        *)
C9_SceneAsAtRequest ==
    lastEvent.type = "failed" => children = sceneAtRequest[lastEvent.url]

(* C9: the error callback reports once to console.error, leaves the scene   *)
(* as it was right before the callback ran and schedules no animate.        *)
C9_ErrorLeavesScene ==
    [][ lastEvent'.type = "failed"
          => /\ children' = children
             /\ out' = <<Call("console.error", "Load error:")>>
             /\ Calls(out', "console.error") = 1
             /\ rafScheduled' = rafScheduled ]_vars

C9_Witness ==
    /\ lastEvent.type = "failed"
    /\ lastEvent.url = 2
    /\ shown(children) = 1
    /\ Calls(out, "console.error") = 1

(* C10: the asset shown is the one of the success callback that ran last:   *)
(* a success callback of load u makes u the asset shown, whatever was       *)
(* selected after u, and no other step changes the asset shown.             *)
C10_LastCompletionWins ==
    [][ /\ \A u \in 1..Len(loads) :
              (loads[u].state = "pending" /\ loads'[u].state = "loaded")
                  => shown(children') = u
        /\ (\A u \in 1..Len(loads) : loads'[u].state = loads[u].state)
              => shown(children') = shown(children) ]_vars

\* the earlier file is shown although the later one has been decoded too
C10_Witness ==
    /\ Len(loads) >= 2
    /\ loads[1].state = "loaded"
    /\ loads[2].state = "loaded"
    /\ shown(children) = 1

(* C11: once an animate callback is scheduled one stays scheduled after     *)
(* every later step, whatever the event, and with frames dispatched fairly  *)
(* the scene is rendered again and again.                                   *)
C11_RenderLoopNeverStops ==
    /\ [][rafScheduled > 0 => rafScheduled' > 0]_vars
    /\ [](rafScheduled > 0
            => []<>(lastEvent.type = "frame" /\ Calls(out, "renderer.render") >= 1))

\* a frame rendered after a later load has failed
C11_Witness ==
    /\ lastEvent.type = "frame"
    /\ rafScheduled > 0
    /\ Calls(out, "renderer.render") >= 1
    /\ \E u \in 1..Len(loads) : loads[u].state = "failed"

(* C12: at most one animate callback is scheduled at any time, and a frame  *)
(* renders the scene once.                                                  *)
C12_OneAnimateChain ==
    /\ rafScheduled <= 1
    /\ lastEvent.type = "frame" => Calls(out, "renderer.render") = 1

(* C13: the checkbox changes only in a change event of the checkbox or in   *)
(* a click on "Human TEM Control", and only a change event unchecks it.     *)
C13_OnlyToggleOrHumanControl ==
    [][ /\ checked' # checked
            => (lastEvent'.type = "change" \/ Clicked("Human TEM Control")')
        /\ (checked /\ ~checked') => lastEvent'.type = "change" ]_vars

\* unchecked again by a change event, with a load in flight
C13_Witness ==
    /\ lastEvent.type = "change"
    /\ ~checked
    /\ mode = "HUMAN CONTROL"
    /\ pending(loads) # {}
    /\ Calls(out, "console.warn") = 0

\* the mode label of each toolbar action, as the table of actions gives it
ModeLabel(t) ==
    CASE t = "Settings"          -> "SETTINGS"
      [] t = "AI Tools"          -> "AI TOOL SELECTION"
      [] t = "Graphs / Analysis" -> "ANALYSIS"
      [] t = "Captured Images"   -> "IMAGE REVIEW"
      [] t = "Human TEM Control" -> "HUMAN CONTROL"
      [] t = "Automated TEM"     -> "AUTOMATED TEM"
      [] OTHER                   -> ""

\* this step is a click on a recognized button that the interlock does not reject
AcceptedClick ==
    /\ lastEvent'.type = "click"
    /\ lastEvent'.arg \in RecognizedTitles
    /\ lastEvent'.arg \in {"AI Tools", "Automated TEM"} => ~checked

(* C14: an accepted click on a recognized button sets the mode to that      *)
(* button's label, and no other step (rejected or unrecognized click,       *)
(* checkbox change, setAIRunning, file selection, loader callback, frame)   *)
(* changes the mode: the mode is the label of the last accepted click.      *)
C14_ModeIsLastAcceptedAction ==
    [][ /\ AcceptedClick => mode' = ModeLabel(lastEvent'.arg)
        /\ ~AcceptedClick => modeIndicator' = modeIndicator ]_vars

\* a rejected click after an accepted one: the mode is still the accepted one's
C14_Witness ==
    /\ Clicked("AI Tools")
    /\ checked
    /\ mode = "SETTINGS"
    /\ Calls(out, "alert") = 1

\* the pairs of status tag and status text the page may show
StatusPairs == {<<"idle", "AI: IDLE">>, <<"idle", "AI: READY">>,
                <<"running", "AI: RUNNING">>, <<"error", "AI: DISABLED">>}

(* C15: every step that changes the status class or the status text leaves  *)
(* a tag among idle, running, error and one of the four tag/text pairs.     *)
C15_StatusPairClosed ==
    [][ <<statusDot, statusText>>' # <<statusDot, statusText>>
          => /\ statusState' \in {"idle", "running", "error"}
             /\ <<statusState', statusText'>> \in StatusPairs ]_vars

\* setAIRunning wrote the status over the one "AI Tools" had set
C15_Witness ==
    /\ lastEvent.type = "setAIRunning"
    /\ mode = "AI TOOL SELECTION"
    /\ statusState = "running"
    /\ statusText = "AI: RUNNING"

\* this step is a click on "AI Tools" or "Automated TEM" that sets the mode
AcceptedAIClick ==
    /\ Clicked("AI Tools")' \/ Clicked("Automated TEM")'
    /\ Accepted(out') \/ modeIndicator' # modeIndicator

(* C16: a step that engages the shutoff leaves the checkbox checked, the    *)
(* checkbox stays checked until a change event unchecks it, and "AI Tools"  *)
(* or "Automated TEM" is accepted only from a state with the checkbox       *)
(* unchecked: between engaging and an accepted AI click lies an unchecking  *)
(* change event.                                                            *)
C16_ReleaseBeforeAIAction ==
    [][ /\ ((lastEvent'.type = "change" /\ ~checked) \/ Clicked("Human TEM Control")')
              => checked'
        /\ (checked /\ ~checked') => lastEvent'.type = "change"
        /\ AcceptedAIClick => (~checked /\ ~checked') ]_vars

\* engaged by "Human TEM Control", not released: "Automated TEM" is refused
C16_Witness ==
    /\ Clicked("Automated TEM")
    /\ checked
    /\ mode = "HUMAN CONTROL"
    /\ statusState = "error"
    /\ ~Accepted(out)

(* C17 as stated: while the checkbox is checked the status is               *)
(* (error, "AI: DISABLED").                                                 *)
C17_DisabledShowsError ==
    disabled => (statusState = "error" /\ statusText = "AI: DISABLED")

(* C17: after every step that leaves the checkbox checked the status is     *)
(* (error, "AI: DISABLED"), or it is (idle, "AI: IDLE") and either the      *)
(* step is a click on "Graphs / Analysis" or the checkbox was checked and   *)
(* the status is the one the step found.                                    *)
C17_DisabledShowsErrorOrAnalysisIdle ==
    [][ checked' =>
          \/ statusState' = "error" /\ statusText' = "AI: DISABLED"
          \/ /\ statusState' = "idle" /\ statusText' = "AI: IDLE"
             /\ \/ Clicked("Graphs / Analysis")'
                \/ checked /\ UNCHANGED <<statusDot, statusText>> ]_vars

\* setAIRunning is a no-op on the idle status "Graphs / Analysis" left
C17_Witness ==
    /\ lastEvent.type = "setAIRunning"
    /\ checked
    /\ mode = "ANALYSIS"
    /\ statusState = "idle"
    /\ statusText = "AI: IDLE"

\* the events of the interlock and the handler each one runs
InterlockEvents == {"change", "setAIRunning"} \cup ButtonTitles
InterlockHandler(e) ==
    CASE e = "change"       -> AiToggleChange
      [] e = "setAIRunning" -> setAIRunning
      [] OTHER              -> ToolButtonClick(e)

\* values the interlock fields take
CheckedValues == BOOLEAN
DotValues == {"status-dot idle", "status-dot running", "status-dot error"}
TextValues == {"AI: IDLE", "AI: READY", "AI: RUNNING", "AI: DISABLED"}
ModeValues == {InitialModeIndicator} \cup {"MODE: " \o ModeLabel(t) : t \in RecognizedTitles}

\* what interlock event e would make of <<checked, statusDot, statusText,
\* modeIndicator>> in this state
InterlockOutcome(e) ==
    LET cs == {c \in CheckedValues : ENABLED (InterlockHandler(e) /\ checked' = c)}
        ds == {d \in DotValues     : ENABLED (InterlockHandler(e) /\ statusDot' = d)}
        ts == {t \in TextValues    : ENABLED (InterlockHandler(e) /\ statusText' = t)}
        ms == {m \in ModeValues    : ENABLED (InterlockHandler(e) /\ modeIndicator' = m)}
    IN  cs \X ds \X ts \X ms

\* what a loader callback of object URL u would make of <<children,
\* rafScheduled, loads[u].state>> in this state
SceneValues == {<<light>>} \cup {<<light, k>> : k \in 1..MaxFiles}
LoadStates == {"none", "pending", "loaded", "failed"}
SuccessOutcome(u) ==
    LET ss == {s \in SceneValues       : ENABLED (LoadSuccess(u) /\ children' = s)}
        ns == {n \in 0..(MaxFiles + 1) : ENABLED (LoadSuccess(u) /\ rafScheduled' = n)}
        ls == {st \in LoadStates       : ENABLED (LoadSuccess(u)
                                            /\ loads' = [loads EXCEPT ![u].state = st])}
    IN  ss \X ns \X ls
ErrorOutcome(u) ==
    LET ss == {s \in SceneValues       : ENABLED (LoadError(u) /\ children' = s)}
        ns == {n \in 0..(MaxFiles + 1) : ENABLED (LoadError(u) /\ rafScheduled' = n)}
        ls == {st \in LoadStates       : ENABLED (LoadError(u)
                                            /\ loads' = [loads EXCEPT ![u].state = st])}
    IN  ss \X ns \X ls

\* handler e can leave the interlock fields as x; callback of u can leave the viewer as y
InterlockCanYield(e, x) ==
    ENABLED (InterlockHandler(e) /\ <<checked, statusDot, statusText, modeIndicator>>' = x)
SuccessCanYield(u, y) ==
    ENABLED (LoadSuccess(u) /\ <<children, rafScheduled, loads[u].state>>' = y)
ErrorCanYield(u, y) ==
    ENABLED (LoadError(u) /\ <<children, rafScheduled, loads[u].state>>' = y)

ViewerStep == lastEvent'.type \in {"select", "loaded", "failed", "frame"}
InterlockStep == lastEvent'.type \in {"click", "change", "setAIRunning"}

\* with load u in flight: what each interlock event does to the interlock
\* fields it also does right after either callback of u, and what either
\* callback of u does to the viewer it also does right after each interlock event
CommutesWithLoad(u) ==
    /\ \A e \in InterlockEvents :
         \E x \in InterlockOutcome(e) :
              /\ ENABLED (LoadSuccess(u) /\ InterlockCanYield(e, x)')
              /\ ENABLED (LoadError(u) /\ InterlockCanYield(e, x)')
    /\ \E y \in SuccessOutcome(u) : \E z \in ErrorOutcome(u) :
         \A e \in InterlockEvents :
             ENABLED (InterlockHandler(e) /\ SuccessCanYield(u, y)' /\ ErrorCanYield(u, z)')

(* C18: a file selection, a loader callback or a frame leaves checkbox,     *)
(* mode and status as they were; a toolbar click, a checkbox change or      *)
(* setAIRunning leaves the scene, the loads and the scheduled animates as   *)
(* they were; and while a load is in flight an interlock event and a        *)
(* callback of that load have the same effect in either order.              *)
C18_ViewerInterlockIndependent ==
    /\ [][ /\ ViewerStep => UNCHANGED <<checked, modeIndicator, statusDot, statusText>>
           /\ InterlockStep => UNCHANGED <<children, loads, rafScheduled>> ]_vars
    /\ [](\A u \in pending(loads) : CommutesWithLoad(u))

\* a toolbar click made while a load is in flight, after another load was shown
C18_Witness ==
    /\ Clicked("Automated TEM")
    /\ Accepted(out)
    /\ pending(loads) # {}
    /\ shown(children) # 0

=============================================================================
